---- MODULE Spec2Model ----
(***************************************************************************)
(* PDF dark-mode converter: the render -> invert -> reassemble pipeline of  *)
(* pdf_converter.py (PDFConverter and the command-line main) and the        *)
(* tkinter front end of gui.py (DarkModeConverterGUI).                      *)
(*                                                                          *)
(* Three specifications share the module:                                   *)
(*   InvertSpec  PDFConverter.invert_image applied once and twice to a      *)
(*               bitmap drawn from a bounded set;                           *)
(*   Spec        one run of main(): pdf_to_images, the inversion loop and   *)
(*               images_to_pdf, with the failures their I/O calls can raise;*)
(*   GuiSpec     the event loop of DarkModeConverterGUI, its worker threads *)
(*               and the callbacks they schedule with window.after.         *)
(* Each specification keeps the variables of the other two at their idle    *)
(* values.                                                                  *)
(***************************************************************************)
EXTENDS Integers, Sequences, FiniteSets, TLC

\* ------------------------------------------------------------------ bounds
\* Largest number of pixels (width * height) of a bitmap drawn by InvertSpec.
MaxPixels == 2
\* Largest number of pages of an input document in Spec.
MaxPages == 3
\* Largest number of start_conversion invocations in GuiSpec.
MaxStarts == 3
\* Largest number of file-dialog results handled in GuiSpec.
MaxBrowses == 3

\* ------------------------------------------------------- program constants
\* The largest value of an 8-bit channel: `255 - value`.
MaxChannel == 255

\* ----------------------------------------------------------------- bitmaps
\* A PIL image: mode, size = <<width, height>>, data = the pixels in row-major
\* order, each pixel a tuple with one value per band of the mode.
Bands(mode) ==
    CASE mode = "RGB" -> 3
      [] mode = "RGBA" -> 4
      [] mode = "L" -> 1
      [] OTHER -> 0

NoImage == [mode |-> "none", size |-> <<0, 0>>, data |-> <<>>]

\* Channel values used for the bands that are not swept over 0..MaxChannel.
SampleValues == {0, 100, MaxChannel}

ChannelValues == 0 .. MaxChannel

Sizes == {s \in (1 .. MaxPixels) \X (1 .. MaxPixels) : s[1] * s[2] <= MaxPixels}

\* Image.new(mode, size): an image of that size with every band 0.
Image_new(mode, size) ==
    [mode |-> mode, size |-> size,
     data |-> [i \in 1 .. (size[1] * size[2]) |-> [k \in 1 .. Bands(mode) |-> 0]]]

\* Image.convert('RGB'): L replicates its band, RGBA drops alpha.
convert_RGB(image) ==
    [mode |-> "RGB", size |-> image.size,
     data |-> [i \in DOMAIN image.data |->
                 IF image.mode = "L"
                 THEN <<image.data[i][1], image.data[i][1], image.data[i][1]>>
                 ELSE <<image.data[i][1], image.data[i][2], image.data[i][3]>>]]

\* Image.putdata(data): copies data into the image from the first pixel on;
\* pixels past the end of data keep their value.
putdata(image, data) ==
    [image EXCEPT !.data =
        [i \in DOMAIN image.data |-> IF i <= Len(data) THEN data[i] ELSE image.data[i]]]

\* A channel inverted one short and clipped at 0.
invert_value_off_by_one(value) == IF value >= MaxChannel THEN 0 ELSE (MaxChannel - 1) - value

\* `255 - value` of line 76.
invert_value(value) == MaxChannel - value

\* tuple(255 - value for value in pixel)
invert_pixel(pixel) == [k \in DOMAIN pixel |-> invert_value(pixel[k])]

\* The loop of lines 74-77 that leaves the last pixel out.
inverted_data_short(data) == [i \in 1 .. (Len(data) - 1) |-> invert_pixel(data[i])]

\* The loop of lines 74-77: one inverted pixel appended per pixel, in order.
inverted_data_of(data) == [i \in DOMAIN data |-> invert_pixel(data[i])]

invert_image(image) ==
    LET rgb == IF image.mode # "RGB" THEN convert_RGB(image) ELSE image
        inverted_image == Image_new("RGB", rgb.size)
    IN  putdata(inverted_image, inverted_data_of(rgb.data))

\* ------------------------------------------------------------------- state
\* invert_image on its own (InvertSpec): the argument, the result of one call,
\* the result of a second call on that result, and the number of calls made.
VARIABLES image, inverted, twice, calls

\* One run of main() (Spec).
\*   args             the parsed command line: input_pdf, output ("" when not given)
\*   fs, fs0          the files by path, now and when the run started
\*   pc               the statement the run is at
\*   pdf_document     the fitz document of pdf_to_images: none, open or closed
\*   page_num         the loop index of pdf_to_images
\*   images           the list pdf_to_images builds and returns
\*   inverted_images  the list built by the loop of convert_pdf_to_dark_mode
\*   temp_dir         the TemporaryDirectory of images_to_pdf and its output.pdf
\*   exc              the exception being propagated ("" when none)
\*   stdout, stderr   what has been printed to each stream
\*   exit_code        the exit status (-1 while the process runs)
VARIABLES args, fs, fs0, pc, pdf_document, page_num, images, inverted_images,
          temp_dir, exc, stdout, stderr, exit_code

\* The GUI (GuiSpec).
\*   current_file, is_converting      the fields set in __init__
\*   convert_button, browse_button    the state option of each button
\*   progress                         the progress bar: hidden or running
\*   status_label, file_label         the text of each label
\*   after_queue                      the callbacks scheduled by window.after(0, ...)
\*   threads                          the worker threads started so far
\*   dialogs                          the message boxes shown so far
\*   start_calls, browses             how often start_conversion was invoked and
\*                                    how many file-dialog results were handled
VARIABLES current_file, is_converting, convert_button, browse_button, progress,
          status_label, file_label, after_queue, threads, dialogs,
          start_calls, browses

invert_vars == <<image, inverted, twice, calls>>
cli_vars == <<args, fs, fs0, pc, pdf_document, page_num, images, inverted_images,
              temp_dir, exc, stdout, stderr, exit_code>>
gui_vars == <<current_file, is_converting, convert_button, browse_button, progress,
              status_label, file_label, after_queue, threads, dialogs,
              start_calls, browses>>
vars == <<invert_vars, cli_vars, gui_vars>>

\* ------------------------------------------------------- paths and files
\* A path: directory, stem (a sequence of name parts) and suffix.
NoPath == [dir |-> "", stem |-> <<>>, suffix |-> ""]

\* f"{base}_darkmode{ext}" of main (os.path.splitext) and
\* input_path.parent / f"{stem}_darkmode{suffix}" of start_conversion.
darkmode_path(path) == [path EXCEPT !.stem = Append(path.stem, "_darkmode")]

NoFile == [kind |-> "absent", pages |-> <<>>]

\* ------------------------------------------------------------- idle values
InvertIdle ==
    /\ image = NoImage
    /\ inverted = NoImage
    /\ twice = NoImage
    /\ calls = 0

CliIdle ==
    /\ args = [input_pdf |-> NoPath, output |-> NoPath]
    /\ fs = <<>>
    /\ fs0 = <<>>
    /\ pc = "idle"
    /\ pdf_document = "none"
    /\ page_num = 0
    /\ images = <<>>
    /\ inverted_images = <<>>
    /\ temp_dir = [state |-> "none", pdf |-> NoFile]
    /\ exc = ""
    /\ stdout = <<>>
    /\ stderr = <<>>
    /\ exit_code = -1

GuiIdle ==
    /\ current_file = NoPath
    /\ is_converting = FALSE
    /\ convert_button = "disabled"
    /\ browse_button = "normal"
    /\ progress = "hidden"
    /\ status_label = "Select a PDF file to begin"
    /\ file_label = <<"No file selected">>
    /\ after_queue = <<>>
    /\ threads = <<>>
    /\ dialogs = <<>>
    /\ start_calls = 0
    /\ browses = 0

\* ------------------------------------------------------------- InvertSpec
\* The pixels of the sampled bitmaps: black, white, a primary colour, and
\* pixels whose three bands differ.
SamplePixels ==
    { <<0, 0, 0>>, <<MaxChannel, MaxChannel, MaxChannel>>, <<MaxChannel, 0, 0>>,
      <<0, 100, MaxChannel>>, <<100, 0, 100>>, <<1, MaxChannel - 1, 128>> }

\* RGB bitmaps of every size up to MaxPixels pixels over the sample values.
SampleBitmaps ==
    UNION {{[mode |-> "RGB", size |-> s, data |-> d] :
               d \in [1 .. (s[1] * s[2]) -> SamplePixels]} : s \in Sizes}

\* One-pixel RGB bitmaps in which one band takes every value 0..255.
SweptBitmaps ==
    {[mode |-> "RGB", size |-> <<1, 1>>,
      data |-> <<[k \in 1 .. 3 |-> IF k = band THEN v ELSE w]>>] :
        band \in 1 .. 3, v \in ChannelValues, w \in SampleValues}

\* Bitmaps of the modes invert_image converts first.
OtherModeBitmaps ==
    {[mode |-> "L", size |-> s, data |-> [i \in 1 .. (s[1] * s[2]) |-> <<v>>]] :
        s \in Sizes, v \in SampleValues}
    \cup
    {[mode |-> "RGBA", size |-> <<1, 1>>, data |-> <<<<p[1], p[2], p[3], a>>>>] :
        p \in SamplePixels, a \in SampleValues}

InputBitmaps == SampleBitmaps \cup SweptBitmaps \cup OtherModeBitmaps

InvertInit ==
    /\ image \in InputBitmaps
    /\ inverted = NoImage
    /\ twice = NoImage
    /\ calls = 0
    /\ CliIdle
    /\ GuiIdle

\* inverted = invert_image(image)
InvertOnce ==
    /\ calls = 0
    /\ inverted' = invert_image(image)
    /\ calls' = 1
    /\ UNCHANGED <<image, twice, cli_vars, gui_vars>>

\* twice = invert_image(inverted)
InvertAgain ==
    /\ calls = 1
    /\ twice' = invert_image(inverted)
    /\ calls' = 2
    /\ UNCHANGED <<image, inverted, cli_vars, gui_vars>>

InvertNext == InvertOnce \/ InvertAgain

InvertSpec == InvertInit /\ [][InvertNext]_vars

\* Width and height of a bitmap.
Width(b) == b.size[1]
Height(b) == b.size[2]

\* C4: for every RGB bitmap b, invert_image(invert_image(b)) is b, pixel for
\* pixel and channel for channel, for all channel values 0..255.
C4_RoundTrip ==
    (calls = 2 /\ image.mode = "RGB") =>
        /\ twice.mode = "RGB"
        /\ twice.size = image.size
        /\ Len(twice.data) = Len(image.data)
        /\ \A i \in DOMAIN image.data : \A k \in 1 .. 3 :
              twice.data[i][k] = image.data[i][k]

\* Both calls made on a two-pixel RGB bitmap whose pixels differ and that
\* holds the channel values 0, 255 and one in between.
C4_Witness ==
    /\ calls = 2
    /\ image.mode = "RGB"
    /\ Len(image.data) = 2
    /\ image.data[1] = <<0, 100, MaxChannel>>
    /\ image.data[2] = <<MaxChannel, 0, 0>>
    /\ twice = image

\* C5: invert_image returns a new bitmap with the width and height of its
\* input in which every channel value v of every pixel of the (RGB) input is
\* replaced by 255 - v, the pixels kept at their positions.
C5_InvertShape ==
    (calls >= 1) =>
        /\ Width(inverted) = Width(image)
        /\ Height(inverted) = Height(image)
        /\ Len(inverted.data) = Width(image) * Height(image)
        /\ inverted.mode = "RGB"
        /\ image.mode = "RGB" =>
              \A i \in DOMAIN image.data :
                 /\ Len(inverted.data[i]) = 3
                 /\ \A k \in 1 .. 3 : inverted.data[i][k] + image.data[i][k] = MaxChannel

\* invert_image has returned for a 2 x 1 bitmap with two different pixels: the
\* result has the inverted pixels at the same positions.
C5_Witness ==
    /\ calls >= 1
    /\ image.size = <<2, 1>>
    /\ image.data = <<<<MaxChannel, 0, 0>>, <<0, 100, MaxChannel>>>>
    /\ inverted.data = <<<<0, MaxChannel, MaxChannel>>, <<MaxChannel, 155, 0>>>>

\* ------------------------------------------------------------------- Spec
\* One run of main(): the command line, the files, and every statement of
\* convert_pdf_to_dark_mode, pdf_to_images and images_to_pdf that reads or
\* writes them.

InPath == [dir |-> "docs", stem |-> <<"a">>, suffix |-> ".pdf"]
OtherPath == [dir |-> "docs", stem |-> <<"b">>, suffix |-> ".pdf"]
Paths == {InPath, OtherPath, darkmode_path(InPath)}

\* What page.get_pixmap(matrix, alpha=False) returns for a page: width, height
\* and samples, the flat sequence of 3 * width * height bytes.
PagePixmaps ==
    { [width |-> 1, height |-> 1, samples |-> <<MaxChannel, MaxChannel, MaxChannel>>],
      [width |-> 1, height |-> 1, samples |-> <<MaxChannel, 0, 0>>],
      [width |-> 2, height |-> 1, samples |-> <<0, MaxChannel, 0, 0, 100, MaxChannel>>] }

SeqsUpTo(S, n) == UNION {[1 .. k -> S] : k \in 0 .. n}

\* A readable PDF of 0..MaxPages pages, a file that is no PDF, or no file.
InputFiles ==
    {[kind |-> "pdf", pages |-> ps] : ps \in SeqsUpTo(PagePixmaps, MaxPages)}
    \cup {[kind |-> "garbage", pages |-> <<>>], NoFile}

\* What may lie at another path before the run: nothing, or an older PDF.
OldFile == [kind |-> "pdf", pages |-> <<[mode |-> "RGB", size |-> <<1, 1>>, data |-> <<<<7, 7, 7>>>>]>>]

Init ==
    /\ InvertIdle
    /\ GuiIdle
    /\ args \in {[input_pdf |-> InPath, output |-> o] : o \in {NoPath, OtherPath, InPath}}
    /\ fs \in {f \in [Paths -> InputFiles \cup {OldFile}] :
                  /\ f[InPath] \in InputFiles
                  /\ \A p \in Paths \ {InPath} : f[p] \in {NoFile, OldFile}}
    /\ fs0 = fs
    /\ pc = "main"
    /\ pdf_document = "none"
    /\ page_num = 0
    /\ images = <<>>
    /\ inverted_images = <<>>
    /\ temp_dir = [state |-> "none", pdf |-> NoFile]
    /\ exc = ""
    /\ stdout = <<>>
    /\ stderr = <<>>
    /\ exit_code = -1

print(line) == stdout' = Append(stdout, line)

\* An exception of class e leaves the try block of convert_pdf_to_dark_mode.
raise(e) ==
    /\ exc' = e
    /\ pc' = "convert_except"

\* Image.frombytes("RGB", [pix.width, pix.height], pix.samples): three
\* consecutive samples make one pixel.
Image_frombytes(pix) ==
    [mode |-> "RGB", size |-> <<pix.width, pix.height>>,
     data |-> [i \in 1 .. (pix.width * pix.height) |->
                 <<pix.samples[3 * (i - 1) + 1], pix.samples[3 * (i - 1) + 2],
                   pix.samples[3 * (i - 1) + 3]>>]]

\* main, lines 152-163: the default output path, then the call of
\* convert_pdf_to_dark_mode, which calls pdf_to_images.
main_start ==
    /\ pc = "main"
    /\ args' = IF args.output = NoPath
               THEN [args EXCEPT !.output = darkmode_path(args.input_pdf)]
               ELSE args
    /\ pc' = "pdf_to_images"
    /\ UNCHANGED <<invert_vars, gui_vars>>
    /\ UNCHANGED <<fs, fs0, pdf_document, page_num, images, inverted_images,
                   temp_dir, exc, stdout, stderr, exit_code>>

\* pdf_to_images, lines 34-36: fitz.open returns a document.
pdf_open ==
    /\ pc = "pdf_to_images"
    /\ fs[args.input_pdf].kind = "pdf"
    /\ print(<<"Converting PDF to images...">>)
    /\ images' = <<>>
    /\ pdf_document' = "open"
    /\ page_num' = 0
    /\ pc' = "render"
    /\ UNCHANGED <<invert_vars, gui_vars>>
    /\ UNCHANGED <<args, fs, fs0, inverted_images, temp_dir, exc, stderr, exit_code>>

\* pdf_to_images, line 36: fitz.open raises on a missing file or one that is
\* no PDF.
pdf_open_fail ==
    /\ pc = "pdf_to_images"
    /\ fs[args.input_pdf].kind # "pdf"
    /\ print(<<"Converting PDF to images...">>)
    /\ images' = <<>>
    /\ raise(IF fs[args.input_pdf].kind = "absent" THEN "FileNotFoundError" ELSE "FileDataError")
    /\ UNCHANGED <<invert_vars, gui_vars>>
    /\ UNCHANGED <<args, fs, fs0, pdf_document, page_num, inverted_images,
                   temp_dir, stderr, exit_code>>

\* for page_num in range(len(pdf_document))
render_more == page_num < Len(fs[args.input_pdf].pages)

\* pdf_to_images, lines 38-47: one page rendered and appended.
render_page ==
    /\ pc = "render"
    /\ render_more
    /\ print(<<"Converting page", page_num + 1, Len(fs[args.input_pdf].pages)>>)
    /\ images' = Append(images, Image_frombytes(fs[args.input_pdf].pages[page_num + 1]))
    /\ page_num' = page_num + 1
    /\ UNCHANGED <<invert_vars, gui_vars>>
    /\ UNCHANGED <<args, fs, fs0, pc, pdf_document, inverted_images, temp_dir,
                   exc, stderr, exit_code>>

\* pdf_to_images, line 43: get_pixmap raises; the exception leaves
\* pdf_to_images past line 49, with the document as it is.
render_page_fail ==
    /\ pc = "render"
    /\ render_more
    /\ print(<<"Converting page", page_num + 1, Len(fs[args.input_pdf].pages)>>)
    /\ raise("RuntimeError")
    /\ UNCHANGED <<invert_vars, gui_vars>>
    /\ UNCHANGED <<args, fs, fs0, pdf_document, page_num, images, inverted_images,
                   temp_dir, stderr, exit_code>>

\* pdf_to_images, lines 49-50, and convert_pdf_to_dark_mode, lines 125-126.
render_done ==
    /\ pc = "render"
    /\ ~render_more
    /\ pdf_document' = "closed"
    /\ print(<<"Inverting colors...">>)
    /\ inverted_images' = <<>>
    /\ pc' = "invert"
    /\ UNCHANGED <<invert_vars, gui_vars>>
    /\ UNCHANGED <<args, fs, fs0, page_num, images, temp_dir, exc, stderr, exit_code>>

\* convert_pdf_to_dark_mode, lines 127-130: one image inverted and appended.
invert_page ==
    /\ pc = "invert"
    /\ Len(inverted_images) < Len(images)
    /\ print(<<"Inverting colors for page", Len(inverted_images) + 1, Len(images)>>)
    /\ inverted_images' = Append(inverted_images, invert_image(images[Len(inverted_images) + 1]))
    /\ UNCHANGED <<invert_vars, gui_vars>>
    /\ UNCHANGED <<args, fs, fs0, pc, pdf_document, page_num, images, temp_dir,
                   exc, stderr, exit_code>>

\* convert_pdf_to_dark_mode, line 129: invert_image raises (no memory for the
\* list of pixels).
invert_page_fail ==
    /\ pc = "invert"
    /\ Len(inverted_images) < Len(images)
    /\ print(<<"Inverting colors for page", Len(inverted_images) + 1, Len(images)>>)
    /\ raise("MemoryError")
    /\ UNCHANGED <<invert_vars, gui_vars>>
    /\ UNCHANGED <<args, fs, fs0, pdf_document, page_num, images, inverted_images,
                   temp_dir, stderr, exit_code>>

\* convert_pdf_to_dark_mode, line 133, and images_to_pdf, line 90.
invert_done ==
    /\ pc = "invert"
    /\ Len(inverted_images) = Len(images)
    /\ print(<<"Creating PDF from inverted images...">>)
    /\ pc' = "images_to_pdf"
    /\ UNCHANGED <<invert_vars, gui_vars>>
    /\ UNCHANGED <<args, fs, fs0, pdf_document, page_num, images, inverted_images,
                   temp_dir, exc, stderr, exit_code>>

\* images_to_pdf, lines 93-96: the temporary directory is made, then
\* images[0] is read; on an empty list that raises IndexError and the with
\* statement removes the directory.
tempdir_create ==
    /\ pc = "images_to_pdf"
    /\ IF inverted_images = <<>>
       THEN /\ temp_dir' = [temp_dir EXCEPT !.state = "removed"]
            /\ raise("IndexError")
       ELSE /\ temp_dir' = [temp_dir EXCEPT !.state = "exists"]
            /\ pc' = "save"
            /\ exc' = exc
    /\ UNCHANGED <<invert_vars, gui_vars>>
    /\ UNCHANGED <<args, fs, fs0, pdf_document, page_num, images, inverted_images,
                   stdout, stderr, exit_code>>

\* images_to_pdf, line 93: the temporary directory cannot be made.
tempdir_fail ==
    /\ pc = "images_to_pdf"
    /\ raise("OSError")
    /\ UNCHANGED <<invert_vars, gui_vars>>
    /\ UNCHANGED <<args, fs, fs0, pdf_document, page_num, images, inverted_images,
                   temp_dir, stdout, stderr, exit_code>>

\* save_all with append_images=images: the first image is saved twice.
saved_pages_all(ims) == <<ims[1]>> \o ims

\* first_image.save(..., save_all=True, append_images=images[1:]): the pages
\* of the saved PDF are the first image, then the appended ones.
saved_pages(ims) == <<ims[1]>> \o SubSeq(ims, 2, Len(ims))

\* images_to_pdf, lines 99-105: the PDF written into the temporary directory.
save_temp ==
    /\ pc = "save"
    /\ temp_dir' = [temp_dir EXCEPT !.pdf = [kind |-> "pdf", pages |-> saved_pages(inverted_images)]]
    /\ pc' = "copy_open"
    /\ UNCHANGED <<invert_vars, gui_vars>>
    /\ UNCHANGED <<args, fs, fs0, pdf_document, page_num, images, inverted_images,
                   exc, stdout, stderr, exit_code>>

\* images_to_pdf, line 99: save raises; the with statement removes the
\* directory.
save_temp_fail ==
    /\ pc = "save"
    /\ temp_dir' = [state |-> "removed", pdf |-> NoFile]
    /\ raise("OSError")
    /\ UNCHANGED <<invert_vars, gui_vars>>
    /\ UNCHANGED <<args, fs, fs0, pdf_document, page_num, images, inverted_images,
                   stdout, stderr, exit_code>>

\* images_to_pdf, lines 108-109: open(output_path, 'wb') creates the file, or
\* truncates the one that is there.
copy_open ==
    /\ pc = "copy_open"
    /\ fs' = [fs EXCEPT ![args.output] = [kind |-> "empty", pages |-> <<>>]]
    /\ pc' = "copy_write"
    /\ UNCHANGED <<invert_vars, gui_vars>>
    /\ UNCHANGED <<args, fs0, pdf_document, page_num, images, inverted_images,
                   temp_dir, exc, stdout, stderr, exit_code>>

\* images_to_pdf, line 109: the output path cannot be opened for writing.
copy_open_fail ==
    /\ pc = "copy_open"
    /\ temp_dir' = [state |-> "removed", pdf |-> NoFile]
    /\ raise("PermissionError")
    /\ UNCHANGED <<invert_vars, gui_vars>>
    /\ UNCHANGED <<args, fs, fs0, pdf_document, page_num, images, inverted_images,
                   stdout, stderr, exit_code>>

\* images_to_pdf, line 110: the bytes of the temporary PDF written to the
\* output path; both files closed, the directory removed.
copy_write ==
    /\ pc = "copy_write"
    /\ fs' = [fs EXCEPT ![args.output] = temp_dir.pdf]
    /\ temp_dir' = [state |-> "removed", pdf |-> NoFile]
    /\ pc' = "convert_done"
    /\ UNCHANGED <<invert_vars, gui_vars>>
    /\ UNCHANGED <<args, fs0, pdf_document, page_num, images, inverted_images,
                   exc, stdout, stderr, exit_code>>

\* images_to_pdf, line 110: read raises (the output stays empty) or write
\* raises part-way (the output holds what was written before).
copy_write_fail ==
    /\ pc = "copy_write"
    /\ \E left \in {"empty", "partial"} :
          fs' = [fs EXCEPT ![args.output] = [kind |-> left, pages |-> <<>>]]
    /\ temp_dir' = [state |-> "removed", pdf |-> NoFile]
    /\ raise("OSError")
    /\ UNCHANGED <<invert_vars, gui_vars>>
    /\ UNCHANGED <<args, fs0, pdf_document, page_num, images, inverted_images,
                   stdout, stderr, exit_code>>

\* convert_pdf_to_dark_mode, line 135, then the return to main.
convert_return ==
    /\ pc = "convert_done"
    /\ print(<<"Dark mode PDF successfully created", args.output>>)
    /\ pc' = "main_done"
    /\ UNCHANGED <<invert_vars, gui_vars>>
    /\ UNCHANGED <<args, fs, fs0, pdf_document, page_num, images, inverted_images,
                   temp_dir, exc, stderr, exit_code>>

\* convert_pdf_to_dark_mode, lines 137-139: the message, then the exception
\* raised again.
convert_except ==
    /\ pc = "convert_except"
    /\ print(<<"Error during conversion", exc>>)
    /\ pc' = "main_except"
    /\ UNCHANGED <<invert_vars, gui_vars>>
    /\ UNCHANGED <<args, fs, fs0, pdf_document, page_num, images, inverted_images,
                   temp_dir, exc, stderr, exit_code>>

\* main returns after line 163: the interpreter exits with status 0.
main_exit ==
    /\ pc = "main_done"
    /\ exit_code' = 0
    /\ pc' = "exited"
    /\ UNCHANGED <<invert_vars, gui_vars>>
    /\ UNCHANGED <<args, fs, fs0, pdf_document, page_num, images, inverted_images,
                   temp_dir, exc, stdout, stderr>>

\* main, lines 164-166: print(...) writes to standard output, then exit(1).
main_except ==
    /\ pc = "main_except"
    /\ print(<<"Error processing PDF", exc>>)
    /\ exit_code' = 1
    /\ pc' = "exited"
    /\ UNCHANGED <<invert_vars, gui_vars>>
    /\ UNCHANGED <<args, fs, fs0, pdf_document, page_num, images, inverted_images,
                   temp_dir, exc, stderr>>

Next ==
    \/ main_start
    \/ pdf_open \/ pdf_open_fail
    \/ render_page \/ render_page_fail \/ render_done
    \/ invert_page \/ invert_page_fail \/ invert_done
    \/ tempdir_create \/ tempdir_fail
    \/ save_temp \/ save_temp_fail
    \/ copy_open \/ copy_open_fail
    \/ copy_write \/ copy_write_fail
    \/ convert_return \/ convert_except
    \/ main_exit \/ main_except

Spec == Init /\ [][Next]_vars

\* ---------------------------------------------------------- claims on Spec
\* convert_pdf_to_dark_mode has returned to its caller, normally or not.
ConvertReturned == pc \in {"main_done", "main_except", "exited"}
ConvertSucceeded == ConvertReturned /\ exc = ""
ConvertFailed == ConvertReturned /\ exc # ""

\* The rendering of page i of the input document, as the run found it.
InputPage(i) == fs0[args.input_pdf].pages[i]

\* Image b is pixmap p with every sample v replaced by 255 - v.
InversionOf(b, p) ==
    /\ b.size = <<p.width, p.height>>
    /\ Len(b.data) = p.width * p.height
    /\ \A j \in 1 .. (p.width * p.height) : \A k \in 1 .. 3 :
          b.data[j][k] = MaxChannel - p.samples[3 * (j - 1) + k]

\* C1: after a successful convert_pdf_to_dark_mode the output document has
\* exactly the n pages of the input, and its i-th page is the inversion of the
\* i-th input page: no page dropped, duplicated or reordered.
C1_PagesPreserved ==
    ConvertSucceeded =>
        /\ fs[args.output].kind = "pdf"
        /\ Len(fs[args.output].pages) = Len(fs0[args.input_pdf].pages)
        /\ Len(fs0[args.input_pdf].pages) >= 1
        /\ \A i \in 1 .. Len(fs0[args.input_pdf].pages) :
              InversionOf(fs[args.output].pages[i], InputPage(i))

\* A successful run on a three-page document whose pages all differ.
C1_Witness ==
    /\ ConvertSucceeded
    /\ exit_code = 0
    /\ Len(fs0[args.input_pdf].pages) = 3
    /\ InputPage(1) # InputPage(2)
    /\ InputPage(2) # InputPage(3)
    /\ InputPage(1) # InputPage(3)
    /\ InputPage(1).width = 2
    /\ Len(fs[args.output].pages) = 3

\* C2: when a stage of convert_pdf_to_dark_mode has failed, no file has been
\* produced at the output path and the input file is as it was.
C2_NoOutputOnFailure ==
    ConvertFailed =>
        /\ fs[args.output] = fs0[args.output]
        /\ fs[args.input_pdf] = fs0[args.input_pdf]

\* C3: once pdf_to_images has returned control, by return or by exception,
\* the document it opened is closed.
C3_DocumentClosed ==
    (pc \notin {"main", "pdf_to_images", "render"}) => pdf_document # "open"

\* images_to_pdf was entered with an empty list and got as far as images[0].
EmptyAssemble ==
    /\ pc \in {"convert_except", "main_except", "exited"}
    /\ inverted_images = <<>>
    /\ temp_dir.state # "none"

\* C6: images_to_pdf with an empty image sequence fails with EmptyInputError
\* and writes nothing at the output path.
C6_EmptyInputError ==
    EmptyAssemble => (exc = "EmptyInputError" /\ fs = fs0)

\* C7: main exits with 0 when convert_pdf_to_dark_mode succeeds, with a
\* non-zero code when it raises, and then has written an error message to the
\* standard error stream.
C7_ExitCodeAndStderr ==
    (pc = "exited") =>
        /\ (exc = "") => exit_code = 0
        /\ (exc # "") => (exit_code # 0 /\ stderr # <<>>)

\* ---------------------------------------------------------------- GuiSpec
\* DarkModeConverterGUI: the main thread runs the event loop, which invokes
\* browse_file and start_conversion and runs the callbacks scheduled with
\* window.after(0, ...) in the order they were scheduled; every worker thread
\* runs perform_conversion. convert_pdf_to_dark_mode is the call of Spec: here
\* it returns or raises.

FileA == [dir |-> "docs", stem |-> <<"a">>, suffix |-> ".pdf"]
FileB == [dir |-> "home", stem |-> <<"b">>, suffix |-> ".pdf"]
Files == {FileA, FileB}

\* What convert_pdf_to_dark_mode may raise in a worker.
Errors == {"FileDataError", "OSError"}

GuiInit ==
    /\ InvertIdle
    /\ CliIdle
    /\ current_file = NoPath
    /\ is_converting = FALSE
    /\ convert_button = "disabled"
    /\ browse_button = "normal"
    /\ progress = "hidden"
    /\ status_label = "Select a PDF file to begin"
    /\ file_label = <<"No file selected">>
    /\ after_queue = <<>>
    /\ threads = <<>>
    /\ dialogs = <<>>
    /\ start_calls = 0
    /\ browses = 0

\* window.after(0, fn, arg) called by thread t.
after(queue, fn, arg, t) == Append(queue, [fn |-> fn, arg |-> arg, by |-> t])

\* set_file(file_path), lines 86-89.
set_file(file_path) ==
    /\ current_file' = file_path
    /\ file_label' = <<"Selected:", file_path.stem, file_path.suffix>>
    /\ convert_button' = "normal"
    /\ status_label' = "Ready to convert"

\* browse_file: the dialog returns a path, or "" when it is cancelled.
browse_file ==
    /\ browses < MaxBrowses
    /\ browses' = browses + 1
    /\ \E file_path \in Files \cup {NoPath} :
          IF file_path # NoPath
          THEN set_file(file_path)
          ELSE UNCHANGED <<current_file, file_label, convert_button, status_label>>
    /\ UNCHANGED <<is_converting, browse_button, progress, after_queue, threads,
                   dialogs, start_calls>>
    /\ UNCHANGED <<invert_vars, cli_vars>>

\* The guard of line 101 without its test of current_file.
start_refused_no_file_test == is_converting

\* The guard of line 101 without its test of is_converting.
start_refused_no_flag_test == current_file = NoPath

\* if self.is_converting or not self.current_file: return
start_refused == is_converting \/ current_file = NoPath

\* start_conversion, lines 101-124.
start_conversion ==
    /\ start_calls < MaxStarts
    /\ start_calls' = start_calls + 1
    /\ IF start_refused
       THEN UNCHANGED <<convert_button, browse_button, progress, is_converting, threads>>
       ELSE /\ convert_button' = "disabled"
            /\ browse_button' = "disabled"
            /\ progress' = "running"
            /\ is_converting' = TRUE
            /\ threads' = Append(threads,
                             [pc |-> "start", input_path |-> current_file,
                              output_path |-> darkmode_path(current_file),
                              error |-> ""])
    /\ UNCHANGED <<current_file, status_label, file_label, after_queue, dialogs, browses>>
    /\ UNCHANGED <<invert_vars, cli_vars>>

\* perform_conversion, line 129.
worker_status(t) ==
    /\ threads[t].pc = "start"
    /\ status_label' = "Converting PDF to dark mode..."
    /\ threads' = [threads EXCEPT ![t].pc = "convert"]
    /\ UNCHANGED <<current_file, is_converting, convert_button, browse_button,
                   progress, file_label, after_queue, dialogs, start_calls, browses>>
    /\ UNCHANGED <<invert_vars, cli_vars>>

\* perform_conversion, line 130: convert_pdf_to_dark_mode returns.
worker_convert_returns(t) ==
    /\ threads[t].pc = "convert"
    /\ threads' = [threads EXCEPT ![t].pc = "returned"]
    /\ UNCHANGED <<current_file, is_converting, convert_button, browse_button,
                   progress, status_label, file_label, after_queue, dialogs,
                   start_calls, browses>>
    /\ UNCHANGED <<invert_vars, cli_vars>>

\* perform_conversion, line 130: convert_pdf_to_dark_mode raises.
worker_convert_raises(t) ==
    /\ threads[t].pc = "convert"
    /\ \E e \in Errors :
          threads' = [threads EXCEPT ![t].pc = "raised", ![t].error = e]
    /\ UNCHANGED <<current_file, is_converting, convert_button, browse_button,
                   progress, status_label, file_label, after_queue, dialogs,
                   start_calls, browses>>
    /\ UNCHANGED <<invert_vars, cli_vars>>

\* An except clause that schedules nothing.
notify_error_swallowed(queue, t) == queue

\* perform_conversion, line 133: window.after(0, self.show_success, output_path)
notify_success(queue, t) == after(queue, "show_success", threads[t].output_path, t)

\* perform_conversion, lines 135-137: window.after(0, self.show_error, str(e))
notify_error(queue, t) == after(queue, "show_error", threads[t].error, t)

\* perform_conversion, lines 132-137: the terminal notification.
worker_notify(t) ==
    /\ threads[t].pc \in {"returned", "raised"}
    /\ after_queue' = IF threads[t].pc = "returned"
                      THEN notify_success(after_queue, t)
                      ELSE notify_error(after_queue, t)
    /\ threads' = [threads EXCEPT ![t].pc = "finally"]
    /\ UNCHANGED <<current_file, is_converting, convert_button, browse_button,
                   progress, status_label, file_label, dialogs, start_calls, browses>>
    /\ UNCHANGED <<invert_vars, cli_vars>>

\* perform_conversion, lines 139-141: window.after(0, self.reset_ui); the
\* thread ends.
worker_finally(t) ==
    /\ threads[t].pc = "finally"
    /\ after_queue' = after(after_queue, "reset_ui", "", t)
    /\ threads' = [threads EXCEPT ![t].pc = "done"]
    /\ UNCHANGED <<current_file, is_converting, convert_button, browse_button,
                   progress, status_label, file_label, dialogs, start_calls, browses>>
    /\ UNCHANGED <<invert_vars, cli_vars>>

\* show_success, lines 145-149: the question, and the folder opened on yes.
show_success ==
    /\ after_queue # <<>>
    /\ Head(after_queue).fn = "show_success"
    /\ after_queue' = Tail(after_queue)
    /\ \E yes \in BOOLEAN :
          dialogs' = Append(dialogs, [kind |-> "askyesno", by |-> Head(after_queue).by,
                                      opened |-> IF yes THEN Head(after_queue).arg.dir ELSE ""])
    /\ UNCHANGED <<current_file, is_converting, convert_button, browse_button,
                   progress, status_label, file_label, threads, start_calls, browses>>
    /\ UNCHANGED <<invert_vars, cli_vars>>

\* show_error, lines 153-156.
show_error ==
    /\ after_queue # <<>>
    /\ Head(after_queue).fn = "show_error"
    /\ after_queue' = Tail(after_queue)
    /\ dialogs' = Append(dialogs, [kind |-> "showerror", by |-> Head(after_queue).by,
                                   opened |-> ""])
    /\ UNCHANGED <<current_file, is_converting, convert_button, browse_button,
                   progress, status_label, file_label, threads, start_calls, browses>>
    /\ UNCHANGED <<invert_vars, cli_vars>>

\* reset_ui, lines 160-165.
reset_ui ==
    /\ after_queue # <<>>
    /\ Head(after_queue).fn = "reset_ui"
    /\ after_queue' = Tail(after_queue)
    /\ is_converting' = FALSE
    /\ progress' = "hidden"
    /\ convert_button' = "normal"
    /\ browse_button' = "normal"
    /\ status_label' = "Ready for next conversion"
    /\ UNCHANGED <<current_file, file_label, threads, dialogs, start_calls, browses>>
    /\ UNCHANGED <<invert_vars, cli_vars>>

GuiNext ==
    \/ browse_file
    \/ start_conversion
    \/ \E t \in DOMAIN threads : worker_status(t)
    \/ \E t \in DOMAIN threads : worker_convert_returns(t)
    \/ \E t \in DOMAIN threads : worker_convert_raises(t)
    \/ \E t \in DOMAIN threads : worker_notify(t)
    \/ \E t \in DOMAIN threads : worker_finally(t)
    \/ show_success
    \/ show_error
    \/ reset_ui

GuiSpec == GuiInit /\ [][GuiNext]_vars

\* -------------------------------------------------------- claims on GuiSpec
\* The terminal notifications thread t has scheduled: those still queued and
\* those whose dialog has been shown.
QueuedBy(t) ==
    {i \in DOMAIN after_queue :
        after_queue[i].by = t /\ after_queue[i].fn \in {"show_success", "show_error"}}
ShownBy(t) == {j \in DOMAIN dialogs : dialogs[j].by = t}
Notifications(t) == Cardinality(QueuedBy(t)) + Cardinality(ShownBy(t))

\* C8: every conversion delivers exactly one terminal notification: a worker
\* that has finished convert_pdf_to_dark_mode and its try statement has
\* scheduled show_success or show_error, one of them and once; before that
\* it has scheduled none; show_success follows a return and show_error a raise.
C8_OneNotification ==
    \A t \in DOMAIN threads :
        /\ Notifications(t) = IF threads[t].pc \in {"finally", "done"} THEN 1 ELSE 0
        /\ \A i \in QueuedBy(t) :
              after_queue[i].fn = IF threads[t].error = "" THEN "show_success" ELSE "show_error"
        /\ \A j \in ShownBy(t) :
              dialogs[j].kind = IF threads[t].error = "" THEN "askyesno" ELSE "showerror"

\* Two conversions have ended, one by a return and one by a raise, and the
\* dialog of each has been shown.
C8_Witness ==
    /\ Len(threads) >= 2
    /\ threads[1].pc = "done"
    /\ threads[2].pc = "done"
    /\ threads[1].error = ""
    /\ threads[2].error # ""
    /\ Cardinality(ShownBy(1)) = 1
    /\ Cardinality(ShownBy(2)) = 1

\* C9: the convert button is enabled only if a file has been selected.
C9_ConvertNeedsFile ==
    convert_button = "normal" => current_file # NoPath

\* The button enabled again by reset_ui after a conversion of a selected file.
C9_Witness ==
    /\ convert_button = "normal"
    /\ current_file # NoPath
    /\ status_label = "Ready for next conversion"
    /\ Len(threads) >= 1

\* The worker threads still inside perform_conversion.
InFlight == {t \in DOMAIN threads : threads[t].pc # "done"}

\* The worker threads that have not finished their call to
\* convert_pdf_to_dark_mode.
Converting == {t \in DOMAIN threads : threads[t].pc \in {"start", "convert"}}

\* C10: at most one worker thread is in flight; a start_conversion invoked
\* while is_converting is true starts no thread and changes no state; and
\* is_converting becomes false only in reset_ui, after the worker has finished
\* its call to convert_pdf_to_dark_mode.
C10_SingleWorker ==
    [][ /\ Cardinality(InFlight') <= 1
        /\ (InFlight' # {}) => is_converting'
        /\ (start_calls' # start_calls /\ is_converting) =>
              UNCHANGED <<current_file, is_converting, convert_button, browse_button,
                          progress, status_label, file_label, after_queue, threads,
                          dialogs, browses>>
        /\ (is_converting /\ ~is_converting') =>
              /\ after_queue # <<>>
              /\ Head(after_queue).fn = "reset_ui"
              /\ after_queue' = Tail(after_queue)
              /\ Converting = {}
              /\ InFlight = {}
      ]_vars

\* start_conversion has been invoked and refused while a worker was converting,
\* and a second conversion has started after the first one ended.
C10_Witness ==
    /\ Len(threads) = 2
    /\ start_calls = 3
    /\ threads[1].pc = "done"
    /\ threads[2].pc = "convert"
    /\ is_converting

====
